---- MODULE Spec2Model ----
(***************************************************************************)
(* Model of the automatic APT <-> kAPT swap loop of swap_executor.ts, with *)
(* the balance helper of utils.ts and the notifier of notification.ts.     *)
(*                                                                         *)
(* main() is an async function: it runs synchronously from one await to    *)
(* the next.  pc names the await main() is suspended at (the external call *)
(* in flight); each action is the return of that call (its result drawn    *)
(* from a small set) followed by the synchronous code up to the next await.*)
(* The loop test of line 162 is a position of its own, "loop", so that the *)
(* state between two iterations can be named.                              *)
(***************************************************************************)
EXTENDS Integers, Sequences, FiniteSets, TLC

VARIABLES
    env,                        \* process.env as read at module load
    pc,                         \* where main() is suspended
    exitCode,                   \* -1 while the process runs, then its exit code
    successfulSwaps,            \* swap_executor.ts:154
    failedSwaps,                \* swap_executor.ts:155
    totalAttempts,              \* swap_executor.ts:156
    isAptToKapt,                \* swap_executor.ts:157 (TRUE: APT -> kAPT, "AtoB")
    currentAptBalanceRawUnits,  \* swap_executor.ts:169 (0 outside an iteration)
    currentBalanceInUnits,      \* swap_executor.ts:190
    amountIn,                   \* swap_executor.ts:204
    estimatedAmountOut,         \* swap_executor.ts:73
    minAmountOut,               \* swap_executor.ts:74
    att,                        \* what the current (or last) iteration did, while in the loop
    history,                    \* one entry per finished iteration, from its log line
    calls,                      \* quote errors and submits over the whole run
    notifications,              \* the calls of sendNotification, with their result
    sleeps,                     \* the number of inter-iteration delays waited
    inflight                    \* the external calls issued and not yet settled

vars == <<env, pc, exitCode, successfulSwaps, failedSwaps, totalAttempts, isAptToKapt,
          currentAptBalanceRawUnits, currentBalanceInUnits, amountIn,
          estimatedAmountOut, minAmountOut, att, history, calls, notifications, sleeps,
          inflight>>

(***************************************************************************)
(* Bounds of the model and constants of the program.                       *)
(***************************************************************************)
MaxN == 3                       \* largest SWAP_BATCH_SIZE explored

DECIMALS == 8
APT_MIN_THRESHOLD == 2
SLIPPAGE_PER_MILLE == 5         \* SLIPPAGE = 0.005
KEEP_APT_AMOUNT_FOR_SWAP == 5
APT_MIN_UNIT_TO_KEEP == KEEP_APT_AMOUNT_FOR_SWAP * (10 ^ DECIMALS)

Max(a, b) == IF a >= b THEN a ELSE b

\* The environments explored.  Only the credentials of the selected channel are
\* ever read by sendNotification, so those of the other channels are left unset.
NotifierEnvs ==
    { e \in [NOTIFICATION_SERVICE_ID : 0..4, DISCORD_WEBHOOK_URL : BOOLEAN,
             TELEGRAM_BOT_TOKEN : BOOLEAN, TELEGRAM_CHAT_ID : BOOLEAN,
             LINE_NOTIFY_TOKEN : BOOLEAN] :
        /\ e.DISCORD_WEBHOOK_URL => e.NOTIFICATION_SERVICE_ID = 1
        /\ e.TELEGRAM_BOT_TOKEN => e.NOTIFICATION_SERVICE_ID = 2
        /\ e.TELEGRAM_CHAT_ID => e.NOTIFICATION_SERVICE_ID = 2
        /\ e.TELEGRAM_CHAT_ID = e.TELEGRAM_BOT_TOKEN
        /\ e.LINE_NOTIFY_TOKEN => e.NOTIFICATION_SERVICE_ID = 3 }

\* PRIVATE_KEY is "missing" (unset or empty), "invalid" (set, not a key) or "valid".
Envs ==
    { [PRIVATE_KEY |-> k, TAPP_POOL_ID |-> p, SWAP_BATCH_SIZE |-> n, notifier |-> ne] :
        k \in {"missing", "invalid", "valid"}, p \in BOOLEAN, n \in 0..MaxN,
        ne \in NotifierEnvs }

\* Results of aptos.getAccountAPTAmount: a rejection, or the balance in octas.
AptAmountResults ==
    {[ok |-> FALSE, value |-> 0]} \cup
    { [ok |-> TRUE, value |-> v] :
        v \in {0, APT_MIN_THRESHOLD * (10 ^ DECIMALS) - 1, APT_MIN_THRESHOLD * (10 ^ DECIMALS),
               APT_MIN_UNIT_TO_KEEP, APT_MIN_UNIT_TO_KEEP + 1} }

\* Results of aptos.getAccountCoinsData: a rejection, a list without the asset,
\* or a list holding the asset with some amount.
CoinsDataResults ==
    {[ok |-> FALSE, found |-> FALSE, amount |-> 0], [ok |-> TRUE, found |-> FALSE, amount |-> 0]}
    \cup { [ok |-> TRUE, found |-> TRUE, amount |-> v] : v \in {0, 1} }

\* Results of tappSDK.Swap.getEstSwapAmount: a rejection, no result, an error
\* payload, or a quote.
QuoteResults ==
    { [kind |-> k, amount |-> 0] : k \in {"rejected", "null", "error"} }
    \cup { [kind |-> "quote", amount |-> v] : v \in {1, 1000000} }

\* The record of one iteration: the direction inherited (line 163) and used
\* (line 188), what the external calls returned (coinAmount is the amount of the
\* kAPT entry found by line 27 of utils.ts, -1 without one), how many of each were
\* made, the writes of isAptToKapt at lines 222, 239 and 248 (flips), and the
\* outcome logged.
NoAttempt ==
    [inherited |-> TRUE, dir |-> TRUE, aptBalance |-> -1, coinsData |-> "none",
     coinAmount |-> -1, amountIn |-> -1, quote |-> "none", aptReads |-> 0, coinReads |-> 0, quotes |-> 0,
     payloads |-> 0, builds |-> 0, signs |-> 0, submits |-> 0, waits |-> 0,
     flips |-> 0, outcome |-> "none", failedAt |-> "none"]

\* The quote requests that ended in an error, the transactions submitted, and
\* whether so far every getAccountAPTAmount returned a balance of at least
\* APT_MIN_THRESHOLD, every getEstSwapAmount returned a quote and every submit was
\* accepted (undisturbed).
NoCalls == [quoteErrors |-> 0, submits |-> 0, undisturbed |-> TRUE]

Init ==
    /\ env \in Envs
    /\ pc = "start"
    /\ exitCode = -1
    /\ successfulSwaps = 0
    /\ failedSwaps = 0
    /\ totalAttempts = 0
    /\ isAptToKapt = TRUE
    /\ currentAptBalanceRawUnits = 0
    /\ currentBalanceInUnits = 0
    /\ amountIn = 0
    /\ estimatedAmountOut = 0
    /\ minAmountOut = 0
    /\ att = NoAttempt
    /\ history = <<>>
    /\ calls = NoCalls
    /\ notifications = <<>>
    /\ sleeps = 0
    /\ inflight = {}

\* The call main() is suspended on at each await.
AwaitedCall(p) ==
    CASE p \in {"notify_config", "notify_start", "notify_summary"} -> "sendNotification"
      [] p = "await_aptAmount" -> "getAccountAPTAmount"
      [] p = "await_coinsData" -> "getAccountCoinsData"
      [] p = "await_quote" -> "getEstSwapAmount"
      [] p = "await_build" -> "transaction.build.simple"
      [] p = "await_submit" -> "transaction.submit.simple"
      [] p = "await_confirm" -> "waitForTransaction"
      [] OTHER -> "none"

\* The calls still in flight once the awaited one has settled.
Settled == inflight \ {AwaitedCall(pc)}

(***************************************************************************)
(* notification.ts                                                         *)
(***************************************************************************)
\* Whether the credentials the selected channel's sender checks are set.
ChannelCredentials(e) ==
    CASE e.NOTIFICATION_SERVICE_ID = 1 -> e.DISCORD_WEBHOOK_URL
      [] e.NOTIFICATION_SERVICE_ID = 2 -> e.TELEGRAM_BOT_TOKEN /\ e.TELEGRAM_CHAT_ID
      [] e.NOTIFICATION_SERVICE_ID = 3 -> e.LINE_NOTIFY_TOKEN
      [] OTHER -> FALSE

SendNotificationResults_NoCatch(e) ==
    IF e.NOTIFICATION_SERVICE_ID = 0 THEN {"skipped"}
    ELSE IF e.NOTIFICATION_SERVICE_ID = 1 /\ ~e.DISCORD_WEBHOOK_URL THEN {"skipped"}
    ELSE IF e.NOTIFICATION_SERVICE_ID \in 1..3
         THEN IF ChannelCredentials(e) THEN {"delivered", "thrown"} ELSE {"thrown"}
    ELSE {"unsupported"}

\* The ways one call of sendNotification can end.  It always returns normally:
\* "skipped" (early return), "delivered" (the fetch resolved), "failed" (the
\* sender threw or the fetch rejected, caught and logged at line 52) or
\* "unsupported" (the default case of the switch).
SendNotificationResults(e) ==
    IF e.NOTIFICATION_SERVICE_ID = 0 THEN {"skipped"}
    ELSE IF e.NOTIFICATION_SERVICE_ID = 1 /\ ~e.DISCORD_WEBHOOK_URL THEN {"skipped"}
    ELSE IF e.NOTIFICATION_SERVICE_ID \in 1..3
         THEN IF ChannelCredentials(e) THEN {"delivered", "failed"} ELSE {"failed"}
    ELSE {"unsupported"}

\* A call of sendNotification: the message (its kind and the numbers it carries)
\* and, once the call has returned, how it ended.
Message(kind, target, success, failure) ==
    [kind |-> kind, target |-> target, success |-> success, failure |-> failure,
     result |-> "pending"]

\* The awaited sendNotification settles: main goes on to next (ending the process
\* with exit code code if it returns there).  A promise rejected with "thrown",
\* which sendNotification never produces, would reject main() at its await.
NotificationReturns(next, code) ==
    \E r \in SendNotificationResults(env.notifier) :
        /\ notifications' = [notifications EXCEPT ![Len(notifications)].result = r]
        /\ inflight' = Settled
        /\ IF r = "thrown"
           THEN pc' = "crashed" /\ exitCode' = 1
           ELSE pc' = next /\ exitCode' = code

(***************************************************************************)
(* utils.ts                                                                *)
(***************************************************************************)
GetCoinBalanceInUnits_Throws(r) ==
    IF ~r.ok THEN -1
    ELSE IF r.found THEN r.amount
    ELSE 0

GetCoinBalanceInUnits_ErrorAsDust(r) ==
    IF ~r.ok THEN 1
    ELSE IF r.found THEN r.amount
    ELSE 0

\* getCoinBalanceInUnits on the result r of getAccountCoinsData.
GetCoinBalanceInUnits(r) ==
    IF ~r.ok THEN 0
    ELSE IF r.found THEN r.amount
    ELSE 0

(***************************************************************************)
(* swap_executor.ts: the pieces of one iteration                           *)
(***************************************************************************)
ResolveDirection_RawThreshold(inherited, aptRawUnits) ==
    IF aptRawUnits < APT_MIN_THRESHOLD THEN FALSE ELSE inherited

\* Lines 172-182: the direction used, from the inherited one and the APT balance.
ResolveDirection(inherited, aptRawUnits) ==
    IF aptRawUnits < APT_MIN_THRESHOLD * (10 ^ DECIMALS) THEN FALSE ELSE inherited

ComputeAmountIn_NoReserve(aptToKapt, balanceInUnits) == balanceInUnits

\* Lines 208-216.
ComputeAmountIn(aptToKapt, balanceInUnits) ==
    IF aptToKapt THEN Max(0, balanceInUnits - APT_MIN_UNIT_TO_KEEP) ELSE balanceInUnits

MinAmountOut_NoSlippage(quoted) == quoted

\* Line 74: Math.floor(estimatedAmountOut * (1 - slippage)).
MinAmountOut(quoted) ==
    (quoted * (1000 - SLIPPAGE_PER_MILLE)) \div 1000

\* The block-scoped locals of the loop body are gone when the iteration ends.
ClearLocals ==
    /\ currentAptBalanceRawUnits' = 0
    /\ currentBalanceInUnits' = 0
    /\ amountIn' = 0
    /\ estimatedAmountOut' = 0
    /\ minAmountOut' = 0

\* In the three branches below, a is the iteration's record so far and cur the
\* value of isAptToKapt at that point of the code.

CatchBlock_NoCount(a, cur, where) ==
    /\ failedSwaps' = failedSwaps
    /\ successfulSwaps' = successfulSwaps
    /\ isAptToKapt' = ~cur
    /\ att' = [a EXCEPT !.outcome = "Failure", !.failedAt = where, !.flips = @ + 1]
    /\ history' = Append(history, [dir |-> a.dir, outcome |-> "Failure", endDir |-> ~cur])
    /\ pc' = "sleep"
    /\ ClearLocals
    /\ inflight' = Settled

CatchBlock_NoFlip(a, cur, where) ==
    /\ failedSwaps' = failedSwaps + 1
    /\ successfulSwaps' = successfulSwaps
    /\ isAptToKapt' = cur
    /\ att' = [a EXCEPT !.outcome = "Failure", !.failedAt = where]
    /\ history' = Append(history, [dir |-> a.dir, outcome |-> "Failure", endDir |-> cur])
    /\ pc' = "sleep"
    /\ ClearLocals
    /\ inflight' = Settled

CatchBlock_Rethrow(a, cur, where) ==
    /\ failedSwaps' = failedSwaps + 1
    /\ successfulSwaps' = successfulSwaps
    /\ isAptToKapt' = cur
    /\ att' = [a EXCEPT !.outcome = "Failure", !.failedAt = where]
    /\ history' = Append(history, [dir |-> a.dir, outcome |-> "Failure", endDir |-> cur])
    /\ pc' = IF where \in {"build", "sign", "submit", "wait"} THEN "crashed" ELSE "sleep"
    /\ ClearLocals
    /\ inflight' = Settled

CatchBlock_Retry(a, cur, where) ==
    IF where = "quote" /\ a.quotes < 2
    THEN /\ pc' = "await_quote"
         /\ att' = [a EXCEPT !.quotes = @ + 1]
         /\ inflight' = Settled \cup {"getEstSwapAmount"}
         /\ UNCHANGED <<successfulSwaps, failedSwaps, isAptToKapt, history,
                        currentAptBalanceRawUnits, currentBalanceInUnits, amountIn,
                        estimatedAmountOut, minAmountOut>>
    ELSE /\ failedSwaps' = failedSwaps + 1
         /\ successfulSwaps' = successfulSwaps
         /\ isAptToKapt' = ~cur
         /\ att' = [a EXCEPT !.outcome = "Failure", !.failedAt = where, !.flips = @ + 1]
         /\ history' = Append(history, [dir |-> a.dir, outcome |-> "Failure", endDir |-> ~cur])
         /\ pc' = "sleep"
         /\ ClearLocals
         /\ inflight' = Settled
    /\ inflight' = Settled

\* Lines 243-255: the catch block, then the delay is started.
CatchBlock(a, cur, where) ==
    /\ failedSwaps' = failedSwaps + 1
    /\ successfulSwaps' = successfulSwaps
    /\ isAptToKapt' = ~cur
    /\ att' = [a EXCEPT !.outcome = "Failure", !.failedAt = where, !.flips = @ + 1]
    /\ history' = Append(history, [dir |-> a.dir, outcome |-> "Failure", endDir |-> ~cur])
    /\ pc' = "sleep"
    /\ ClearLocals
    /\ inflight' = Settled

SkipBranch_NoFlip(a, cur) ==
    /\ successfulSwaps' = successfulSwaps
    /\ failedSwaps' = failedSwaps
    /\ isAptToKapt' = cur
    /\ att' = [a EXCEPT !.outcome = "Skipped"]
    /\ history' = Append(history, [dir |-> a.dir, outcome |-> "Skipped", endDir |-> cur])
    /\ pc' = "loop"
    /\ ClearLocals
    /\ inflight' = Settled

\* Lines 220-224: the skip; continue goes straight back to the loop test.
SkipBranch(a, cur) ==
    /\ successfulSwaps' = successfulSwaps
    /\ failedSwaps' = failedSwaps
    /\ isAptToKapt' = ~cur
    /\ att' = [a EXCEPT !.outcome = "Skipped", !.flips = @ + 1]
    /\ history' = Append(history, [dir |-> a.dir, outcome |-> "Skipped", endDir |-> ~cur])
    /\ pc' = "loop"
    /\ ClearLocals
    /\ inflight' = Settled

SuccessBranch_NoFlip(a, cur) ==
    /\ successfulSwaps' = successfulSwaps + 1
    /\ failedSwaps' = failedSwaps
    /\ isAptToKapt' = cur
    /\ att' = [a EXCEPT !.outcome = "Success"]
    /\ history' = Append(history, [dir |-> a.dir, outcome |-> "Success", endDir |-> cur])
    /\ pc' = "sleep"
    /\ ClearLocals
    /\ inflight' = Settled

\* Lines 238-241 and 254-255: the confirmed swap, then the delay is started.
SuccessBranch(a, cur) ==
    /\ successfulSwaps' = successfulSwaps + 1
    /\ failedSwaps' = failedSwaps
    /\ isAptToKapt' = ~cur
    /\ att' = [a EXCEPT !.outcome = "Success", !.flips = @ + 1]
    /\ history' = Append(history, [dir |-> a.dir, outcome |-> "Success", endDir |-> ~cur])
    /\ pc' = "sleep"
    /\ ClearLocals
    /\ inflight' = Settled

\* Line 220: the skip test.
SkipTest_Negative(amt) == amt < 0

SkipTest(amt) == amt <= 0

\* Lines 204-234 and 51-67: the amount, the skip test, and the quote request of
\* executeTappSwap.
ContinueWithBalance(a, cur, aptRawUnits, balanceInUnits) ==
    LET amt == ComputeAmountIn(cur, balanceInUnits)
        b == [a EXCEPT !.amountIn = amt]
    IN  IF SkipTest(amt)
        THEN SkipBranch(b, cur)
        ELSE /\ pc' = "await_quote"
             /\ isAptToKapt' = cur
             /\ currentAptBalanceRawUnits' = aptRawUnits
             /\ currentBalanceInUnits' = balanceInUnits
             /\ amountIn' = amt
             /\ estimatedAmountOut' = 0
             /\ minAmountOut' = 0
             /\ att' = [b EXCEPT !.quotes = @ + 1]
             /\ inflight' = Settled \cup {"getEstSwapAmount"}
             /\ UNCHANGED <<successfulSwaps, failedSwaps, history>>

(***************************************************************************)
(* swap_executor.ts: main()                                                *)
(***************************************************************************)
\* Line 121.
ConfigMissing_And(e) == e.PRIVATE_KEY = "missing" /\ ~e.TAPP_POOL_ID

ConfigMissing(e) == e.PRIVATE_KEY = "missing" \/ ~e.TAPP_POOL_ID

MainStart_Unawaited ==
    /\ pc = "start"
    /\ IF ConfigMissing(env)
       THEN /\ notifications' = Append(notifications, Message("configError", 0, 0, 0))
            /\ inflight' = inflight \cup {"sendNotification"}
            /\ pc' = "notify_config"
            /\ exitCode' = exitCode
       ELSE IF env.PRIVATE_KEY # "valid"
       THEN /\ pc' = "crashed"
            /\ exitCode' = 1
            /\ notifications' = notifications
            /\ inflight' = inflight
       ELSE /\ notifications' =
                   Append(notifications, Message("start", env.SWAP_BATCH_SIZE, 0, 0))
            /\ inflight' = inflight \cup {"sendNotification"}
            /\ pc' = "loop"
            /\ exitCode' = exitCode
    /\ UNCHANGED <<env, successfulSwaps, failedSwaps, totalAttempts, isAptToKapt,
                   currentAptBalanceRawUnits, currentBalanceInUnits, amountIn,
                   estimatedAmountOut, minAmountOut, att, history, calls, sleeps>>

\* Lines 119-160: the configuration check, the initialisation, the start
\* notification.  An unusable key makes lines 142-146 throw outside any try: the
\* promise of main() rejects and the process ends with exit code 1.
MainStart ==
    /\ pc = "start"
    /\ IF ConfigMissing(env)
       THEN /\ notifications' = Append(notifications, Message("configError", 0, 0, 0))
            /\ inflight' = inflight \cup {"sendNotification"}
            /\ pc' = "notify_config"
            /\ exitCode' = exitCode
       ELSE IF env.PRIVATE_KEY # "valid"
       THEN /\ pc' = "crashed"
            /\ exitCode' = 1
            /\ notifications' = notifications
            /\ inflight' = inflight
       ELSE /\ notifications' =
                   Append(notifications, Message("start", env.SWAP_BATCH_SIZE, 0, 0))
            /\ inflight' = inflight \cup {"sendNotification"}
            /\ pc' = "notify_start"
            /\ exitCode' = exitCode
    /\ UNCHANGED <<env, successfulSwaps, failedSwaps, totalAttempts, isAptToKapt,
                   currentAptBalanceRawUnits, currentBalanceInUnits, amountIn,
                   estimatedAmountOut, minAmountOut, att, history, calls, sleeps>>

\* Lines 122-124: the configuration error was passed to the notifier; main
\* returns, and the process ends with exit code 0 (line 269 awaits nothing and
\* sets no exit code).
ConfigNotificationReturn ==
    /\ pc = "notify_config"
    /\ NotificationReturns("configError", 0)
    /\ UNCHANGED <<env, successfulSwaps, failedSwaps, totalAttempts, isAptToKapt,
                   currentAptBalanceRawUnits, currentBalanceInUnits, amountIn,
                   estimatedAmountOut, minAmountOut, att, history, calls, sleeps>>

\* Line 160: the start notification returned; the loop is entered.
StartNotificationReturn ==
    /\ pc = "notify_start"
    /\ NotificationReturns("loop", exitCode)
    /\ UNCHANGED <<env, successfulSwaps, failedSwaps, totalAttempts, isAptToKapt,
                   currentAptBalanceRawUnits, currentBalanceInUnits, amountIn,
                   estimatedAmountOut, minAmountOut, att, history, calls, sleeps>>

\* Line 162.
LoopCondition_OffByOne(total, target) == total <= target

LoopCondition(total, target) == total < target

\* Lines 162-171: the loop test; a new iteration counts itself and asks for the
\* APT balance.  Lines 259-263: after the loop the summary is passed to the notifier
\* (no iteration is in progress any more: its record is dropped).
LoopTest ==
    /\ pc = "loop"
    /\ IF LoopCondition(totalAttempts, env.SWAP_BATCH_SIZE)
       THEN /\ totalAttempts' = totalAttempts + 1
            /\ att' = [NoAttempt EXCEPT !.inherited = isAptToKapt, !.dir = isAptToKapt,
                                        !.aptReads = 1, !.outcome = "pending"]
            /\ pc' = "await_aptAmount"
            /\ inflight' = inflight \cup {"getAccountAPTAmount"}
            /\ notifications' = notifications
       ELSE /\ notifications' =
                   Append(notifications,
                          Message("summary", env.SWAP_BATCH_SIZE, successfulSwaps, failedSwaps))
            /\ inflight' = inflight \cup {"sendNotification"}
            /\ pc' = "notify_summary"
            /\ att' = NoAttempt
            /\ totalAttempts' = totalAttempts
    /\ UNCHANGED <<env, exitCode, calls, successfulSwaps, failedSwaps, isAptToKapt,
                   currentAptBalanceRawUnits, currentBalanceInUnits, amountIn,
                   estimatedAmountOut, minAmountOut, history, sleeps>>

\* Lines 169-202: getAccountAPTAmount returned (or threw into the catch block);
\* the direction is resolved; APT -> kAPT goes on with this balance, kAPT -> APT
\* asks getCoinBalanceInUnits for the kAPT balance.
AptAmountReturn ==
    /\ pc = "await_aptAmount"
    /\ \E r \in AptAmountResults :
         IF ~r.ok
         THEN /\ CatchBlock(att, isAptToKapt, "aptAmount")
              /\ calls' = [calls EXCEPT !.undisturbed = FALSE]
         ELSE LET d == ResolveDirection(isAptToKapt, r.value)
                  a == [att EXCEPT !.aptBalance = r.value, !.dir = d]
              IN  /\ calls' = [calls EXCEPT !.undisturbed =
                                    @ /\ r.value >= APT_MIN_THRESHOLD * 10^DECIMALS]
                  /\ IF d
                     THEN ContinueWithBalance(a, d, r.value, r.value)
                     ELSE /\ pc' = "await_coinsData"
                          /\ isAptToKapt' = d
                          /\ currentAptBalanceRawUnits' = r.value
                          /\ att' = [a EXCEPT !.coinReads = @ + 1]
                          /\ inflight' = Settled \cup {"getAccountCoinsData"}
                          /\ UNCHANGED <<successfulSwaps, failedSwaps, history,
                                         currentBalanceInUnits, amountIn,
                                         estimatedAmountOut, minAmountOut>>
    /\ UNCHANGED <<env, exitCode, totalAttempts, notifications, sleeps>>

\* Lines 197-202: getCoinBalanceInUnits returned the kAPT balance.  A negative
\* value stands for an exception thrown by the helper, which the code never does.
CoinsDataReturn ==
    /\ pc = "await_coinsData"
    /\ \E r \in CoinsDataResults :
         LET bal == GetCoinBalanceInUnits(r)
             a == [att EXCEPT !.coinsData = IF ~r.ok THEN "error"
                                            ELSE IF r.found THEN "found" ELSE "missing",
                              !.coinAmount = IF r.ok /\ r.found THEN r.amount ELSE -1]
         IN  IF bal < 0
             THEN CatchBlock(a, isAptToKapt, "coinsData")
             ELSE ContinueWithBalance(a, isAptToKapt, currentAptBalanceRawUnits, bal)
    /\ UNCHANGED <<env, exitCode, totalAttempts, calls, notifications, sleeps>>

\* Line 69: whether the quote is rejected by executeTappSwap.
QuoteFails_ErrorIgnored(r) == r.kind \in {"rejected", "null"}

QuoteFails(r) == r.kind # "quote"

\* Lines 61-102: the quote returned; a missing or error quote throws; otherwise
\* the minimum output and the payload are computed and the build is requested.
QuoteReturn ==
    /\ pc = "await_quote"
    /\ \E r \in QuoteResults, payloadOk \in BOOLEAN :
         LET a == [att EXCEPT !.quote = r.kind]
             c == IF r.kind = "quote" THEN calls
                  ELSE [calls EXCEPT !.quoteErrors = @ + 1, !.undisturbed = FALSE]
         IN  IF QuoteFails(r)
             THEN /\ CatchBlock(a, isAptToKapt, "quote")
                  /\ calls' = c
             ELSE IF ~payloadOk
             THEN /\ CatchBlock([a EXCEPT !.payloads = @ + 1], isAptToKapt, "payload")
                  /\ calls' = c
             ELSE /\ pc' = "await_build"
                  /\ estimatedAmountOut' = r.amount
                  /\ minAmountOut' = MinAmountOut(r.amount)
                  /\ att' = [a EXCEPT !.payloads = @ + 1, !.builds = @ + 1]
                  /\ inflight' = Settled \cup {"transaction.build.simple"}
                  /\ calls' = c
                  /\ UNCHANGED <<successfulSwaps, failedSwaps, isAptToKapt, history,
                                 currentAptBalanceRawUnits, currentBalanceInUnits, amountIn>>
    /\ UNCHANGED <<env, exitCode, totalAttempts, notifications, sleeps>>

\* Lines 93-111: the build returned; the transaction is signed and submitted.
BuildReturn ==
    /\ pc = "await_build"
    /\ \E buildOk \in BOOLEAN, signOk \in BOOLEAN :
         IF ~buildOk
         THEN /\ CatchBlock(att, isAptToKapt, "build")
              /\ calls' = calls
         ELSE IF ~signOk
         THEN /\ CatchBlock([att EXCEPT !.signs = @ + 1], isAptToKapt, "sign")
              /\ calls' = calls
         ELSE /\ pc' = "await_submit"
              /\ att' = [att EXCEPT !.signs = @ + 1, !.submits = @ + 1]
              /\ inflight' = Settled \cup {"transaction.submit.simple"}
              /\ calls' = [calls EXCEPT !.submits = @ + 1]
              /\ UNCHANGED <<successfulSwaps, failedSwaps, isAptToKapt, history,
                             currentAptBalanceRawUnits, currentBalanceInUnits, amountIn,
                             estimatedAmountOut, minAmountOut>>
    /\ UNCHANGED <<env, exitCode, totalAttempts, notifications, sleeps>>

SubmitReturn_NoWait ==
    /\ pc = "await_submit"
    /\ \E submitOk \in BOOLEAN :
         IF ~submitOk
         THEN /\ CatchBlock(att, isAptToKapt, "submit")
              /\ calls' = [calls EXCEPT !.undisturbed = FALSE]
         ELSE /\ SuccessBranch(att, isAptToKapt)
              /\ calls' = calls
    /\ UNCHANGED <<env, exitCode, totalAttempts, notifications, sleeps>>

\* Lines 108-113 and 228-236: the submit returned; the confirmation is awaited.
SubmitReturn ==
    /\ pc = "await_submit"
    /\ \E submitOk \in BOOLEAN :
         IF ~submitOk
         THEN /\ CatchBlock(att, isAptToKapt, "submit")
              /\ calls' = [calls EXCEPT !.undisturbed = FALSE]
         ELSE /\ pc' = "await_confirm"
              /\ att' = [att EXCEPT !.waits = @ + 1]
              /\ inflight' = Settled \cup {"waitForTransaction"}
              /\ UNCHANGED <<successfulSwaps, failedSwaps, isAptToKapt, history, calls,
                             currentAptBalanceRawUnits, currentBalanceInUnits, amountIn,
                             estimatedAmountOut, minAmountOut>>
    /\ UNCHANGED <<env, exitCode, totalAttempts, notifications, sleeps>>

\* Lines 236-241: waitForTransaction returned.
ConfirmReturn ==
    /\ pc = "await_confirm"
    /\ \E confirmOk \in BOOLEAN :
         IF ~confirmOk
         THEN CatchBlock(att, isAptToKapt, "wait")
         ELSE SuccessBranch(att, isAptToKapt)
    /\ UNCHANGED <<env, exitCode, totalAttempts, calls, notifications, sleeps>>

\* Lines 254-256: the delay elapsed; back to the loop test.
SleepReturn ==
    /\ pc = "sleep"
    /\ pc' = "loop"
    /\ sleeps' = sleeps + 1
    /\ UNCHANGED <<env, exitCode, successfulSwaps, failedSwaps, totalAttempts, isAptToKapt,
                   currentAptBalanceRawUnits, currentBalanceInUnits, amountIn,
                   estimatedAmountOut, minAmountOut, att, history, calls, notifications,
                   inflight>>

\* Lines 263-267: the summary notification returned; main returns.
SummaryNotificationReturn ==
    /\ pc = "notify_summary"
    /\ NotificationReturns("done", 0)
    /\ UNCHANGED <<env, successfulSwaps, failedSwaps, totalAttempts, isAptToKapt,
                   currentAptBalanceRawUnits, currentBalanceInUnits, amountIn,
                   estimatedAmountOut, minAmountOut, att, history, calls, sleeps>>

Next ==
    \/ MainStart
    \/ ConfigNotificationReturn
    \/ StartNotificationReturn
    \/ LoopTest
    \/ AptAmountReturn
    \/ CoinsDataReturn
    \/ QuoteReturn
    \/ BuildReturn
    \/ SubmitReturn
    \/ ConfirmReturn
    \/ SleepReturn
    \/ SummaryNotificationReturn

Spec == Init /\ [][Next]_vars

\* Every external call eventually returns or fails, timers fire, and main() runs
\* on whenever the promise it awaits settles.
FairSpec == Spec /\ WF_vars(Next)

(***************************************************************************)
(* Properties                                                              *)
(***************************************************************************)
Outcomes == {"Success", "Failure", "Skipped"}

\* The code keeps no counter of skipped iterations: they are the iterations that
\* logged the skip line (221).
SkippedCount == Cardinality({ i \in 1..Len(history) : history[i].outcome = "Skipped" })

BetweenIterations == pc \in {"sleep", "loop", "notify_summary", "done"}

C2_DirectionFlips ==
    /\ att.outcome = "pending" => att.flips = 0
    /\ att.outcome \in Outcomes =>
          /\ att.flips = 1
          /\ isAptToKapt = ~att.dir
          /\ history[Len(history)] =
                [dir |-> att.dir, outcome |-> att.outcome, endDir |-> ~att.dir]
    /\ \A i \in 1..Len(history) : history[i].endDir = ~history[i].dir

\* A failed iteration whose direction was forced from APT -> kAPT to kAPT -> APT.
C2_Witness ==
    /\ att.outcome = "Failure"
    /\ att.aptBalance >= 0
    /\ att.aptBalance < APT_MIN_THRESHOLD * (10 ^ DECIMALS)
    /\ att.inherited
    /\ ~att.dir
    /\ isAptToKapt
    /\ Len(history) >= 2

\* C3: in every iteration whose APT balance was read, the direction used is
\* kAPT -> APT when the balance is below 2 APT and otherwise the direction left by
\* the previous iteration (APT -> kAPT in the first); the direction used is the one
\* the rest of the iteration works with.
C3_DirectionResolution ==
    /\ att.outcome # "none" =>
          att.inherited = IF totalAttempts = 1 THEN TRUE
                          ELSE history[totalAttempts - 1].endDir
    /\ att.outcome # "none" =>
          att.dir = IF att.aptBalance >= 0
                       /\ att.aptBalance < APT_MIN_THRESHOLD * (10 ^ DECIMALS)
                    THEN FALSE ELSE att.inherited
    /\ (att.outcome # "none" /\ att.aptBalance >= 0) =>
          /\ att.coinReads = IF att.dir THEN 0 ELSE 1
          /\ att.outcome = "pending" => isAptToKapt = att.dir

\* One octa below the threshold: the inherited APT -> kAPT is overridden.
C3_Witness ==
    /\ pc = "await_quote"
    /\ att.aptBalance = APT_MIN_THRESHOLD * (10 ^ DECIMALS) - 1
    /\ att.inherited
    /\ ~att.dir

AmountComputed == att.amountIn # -1

\* C4: an iteration whose computed amountIn is <= 0 is logged as skipped, makes no
\* quote request and builds, signs and submits nothing, is counted in
\* totalAttempts, and flips the direction; APT -> kAPT with a balance equal to the
\* 5 APT kept back is such an iteration.
C4_SkipRule ==
    /\ (AmountComputed /\ att.amountIn <= 0) =>
          /\ att.outcome = "Skipped"
          /\ att.quotes = 0 /\ att.payloads = 0 /\ att.builds = 0
          /\ att.signs = 0 /\ att.submits = 0 /\ att.waits = 0
          /\ Len(history) = totalAttempts
          /\ history[totalAttempts].outcome = "Skipped"
          /\ isAptToKapt = ~att.dir
    /\ (att.dir /\ att.aptBalance = APT_MIN_UNIT_TO_KEEP) => att.outcome = "Skipped"
    /\ (att.outcome = "Skipped") => (AmountComputed /\ att.amountIn <= 0)

C4_Witness ==
    /\ att.outcome = "Skipped"
    /\ att.dir
    /\ att.aptBalance = APT_MIN_UNIT_TO_KEEP
    /\ att.amountIn = 0
    /\ totalAttempts = 2

QuoteErrorKinds == {"rejected", "null", "error"}

\* C5: a quote request that is rejected, returns nothing or returns an error makes
\* its iteration exactly one failure (failedSwaps + 1, successfulSwaps unchanged)
\* with nothing built, signed or submitted; the run goes on, and a run with one
\* quote error whose other iterations all succeed ends with failedSwaps = 1.
C5_QuoteFailure ==
    /\ [](att.quote \in QuoteErrorKinds =>
             /\ att.outcome = "Failure"
             /\ att.failedAt = "quote"
             /\ att.payloads = 0 /\ att.builds = 0 /\ att.signs = 0
             /\ att.submits = 0 /\ att.waits = 0)
    /\ [][(att.quote = "none" /\ att'.quote \in QuoteErrorKinds) =>
             /\ failedSwaps' = failedSwaps + 1
             /\ successfulSwaps' = successfulSwaps
             /\ pc' = "sleep"
             /\ exitCode' = -1]_vars
    /\ []((pc = "done" /\ calls.quoteErrors = 1
             /\ successfulSwaps = env.SWAP_BATCH_SIZE - 1) => failedSwaps = 1)

\* The quote of iteration 2 of 3 failed, iterations 1 and 3 succeeded.
C5_Witness ==
    /\ pc = "done"
    /\ env.SWAP_BATCH_SIZE = 3
    /\ calls.quoteErrors = 1
    /\ history[1].outcome = "Success"
    /\ history[2].outcome = "Failure"
    /\ history[3].outcome = "Success"
    /\ failedSwaps = 1

TransactionSteps == {"payload", "build", "sign", "submit", "wait"}

ValidConfig == env.PRIVATE_KEY = "valid" /\ env.TAPP_POOL_ID

Summaries == { i \in 1..Len(notifications) : notifications[i].kind = "summary" }

\* C7: with a valid configuration, and every external call returning or failing,
\* the run ends; it ends after exactly SWAP_BATCH_SIZE iterations (none is started
\* once totalAttempts has reached the target), and the summary is passed to the
\* notifier exactly once, after the last iteration, carrying the number of
\* iterations, successfulSwaps and failedSwaps as they then are.
C7_Termination ==
    /\ (ValidConfig /\ pc = "start") ~> (pc = "done")
    /\ [](pc = "done" =>
             /\ totalAttempts = env.SWAP_BATCH_SIZE
             /\ Len(history) = env.SWAP_BATCH_SIZE
             /\ Cardinality(Summaries) = 1
             /\ LET m == notifications[Len(notifications)]
                IN  /\ m.kind = "summary"
                    /\ m.result # "pending"
                    /\ m.target = totalAttempts
                    /\ m.success = successfulSwaps
                    /\ m.failure = failedSwaps)
    /\ [](Summaries # {} =>
             (pc \in {"notify_summary", "done"} /\ totalAttempts = env.SWAP_BATCH_SIZE))
    /\ [][totalAttempts' # totalAttempts =>
             (totalAttempts < env.SWAP_BATCH_SIZE /\ totalAttempts' = totalAttempts + 1)]_vars

C7_Witness ==
    /\ pc = "done"
    /\ env.SWAP_BATCH_SIZE = 3
    /\ totalAttempts = 3
    /\ notifications[2].kind = "summary"
    /\ notifications[2].result = "delivered"
    /\ notifications[2].success = 2
    /\ notifications[2].failure = 1

\* The iteration is over and its APT balance was never obtained: the read failed.
AptReadFailed == att.outcome \in Outcomes /\ att.aptBalance = -1

\* C8 as stated: no failing balance query, of APT or of kAPT, makes its iteration
\* a failure.
C8_ReadFailureNeverFailure ==
    (AptReadFailed \/ att.coinsData = "error") => att.outcome # "Failure"

\* C8, amended: a failing kAPT query is a zero balance, so a zero amountIn and a
\* skipped iteration, never a failure; a failing APT query reaches the catch block:
\* the iteration is a failure with no kAPT read, quote or transaction.
C8_BalanceReadFailure ==
    /\ att.coinsData = "error" =>
          /\ att.amountIn = 0
          /\ att.outcome = "Skipped"
          /\ att.failedAt = "none"
          /\ history[Len(history)].outcome = "Skipped"
    /\ AptReadFailed =>
          /\ att.outcome = "Failure"
          /\ att.failedAt = "aptAmount"
          /\ att.coinReads = 0 /\ att.quotes = 0 /\ att.builds = 0 /\ att.submits = 0

C8_Witness ==
    /\ att.coinsData = "error"
    /\ att.outcome = "Skipped"
    /\ failedSwaps = 0
    /\ totalAttempts = 1

\* C9: when PRIVATE_KEY or TAPP_POOL_ID is missing, the error is passed to the
\* notifier and nothing else happens: no iteration, no balance read, quote, build
\* or submit, no delay, and no start or summary notification.
C9_ConfigurationErrorHalts ==
    (env.PRIVATE_KEY = "missing" \/ ~env.TAPP_POOL_ID) =>
        /\ pc \in {"start", "notify_config", "configError"}
        /\ totalAttempts = 0
        /\ att = NoAttempt
        /\ history = <<>>
        /\ calls = NoCalls
        /\ sleeps = 0
        /\ \A i \in 1..Len(notifications) : notifications[i].kind = "configError"
        /\ pc # "start" => Len(notifications) = 1

C9_Witness ==
    /\ pc = "configError"
    /\ env.PRIVATE_KEY = "valid"
    /\ ~env.TAPP_POOL_ID
    /\ notifications[1].kind = "configError"
    /\ notifications[1].result = "delivered"

\* C10: when PRIVATE_KEY or TAPP_POOL_ID is missing, the process ends with a
\* non-zero exit code.
C10_ConfigurationErrorExitCode ==
    ((env.PRIVATE_KEY = "missing" \/ ~env.TAPP_POOL_ID) /\ exitCode # -1) => exitCode > 0

Directions == [i \in 1..Len(history) |-> history[i].dir]

\* The run of the scenario: three iterations asked for, the run completed, every
\* APT balance read returned at least APT_MIN_THRESHOLD, every quote and every
\* submit succeeded.
ScenarioRun ==
    /\ pc = "done"
    /\ env.SWAP_BATCH_SIZE = 3
    /\ calls.undisturbed

\* C11 as stated: in the scenario run there are exactly 3 successes and the
\* directions used are APT -> kAPT, kAPT -> APT, APT -> kAPT.
C11_ScenarioThreeSuccesses ==
    ScenarioRun =>
       /\ successfulSwaps = 3
       /\ Directions = <<TRUE, FALSE, TRUE>>

\* C11: in the scenario run the directions used are APT -> kAPT, kAPT -> APT,
\* APT -> kAPT and the successes are the iterations neither skipped nor failed;
\* while balances, quotes and submits are as in the scenario, an iteration is
\* skipped only with a zero amount (APT -> kAPT: balance within the reserve) and
\* fails only at the payload, the build, the signature or the confirmation.
C11_AlternationScenario ==
    /\ ScenarioRun =>
          /\ Directions = <<TRUE, FALSE, TRUE>>
          /\ successfulSwaps = 3 - SkippedCount - failedSwaps
          /\ \A i \in 1..3 : history[i].endDir = ~history[i].dir
    /\ calls.undisturbed /\ att.outcome = "Skipped" =>
          /\ att.amountIn = 0
          /\ att.dir => att.aptBalance <= APT_MIN_UNIT_TO_KEEP
    /\ calls.undisturbed /\ att.outcome = "Failure" =>
          att.failedAt \in {"payload", "build", "sign", "wait"}
    /\ calls.undisturbed /\ att.outcome \in Outcomes /\ att.amountIn > 0
         /\ att.failedAt = "none" => att.outcome = "Success"

C11_Witness ==
    /\ ScenarioRun
    /\ successfulSwaps = 3
    /\ Directions = <<TRUE, FALSE, TRUE>>

\* C12: the delay is waited after every iteration, skipped ones included: when an
\* iteration asks for the APT balance, every earlier iteration was followed by
\* one delay.
C12_DelayAfterSkip ==
    pc = "await_aptAmount" => sleeps = totalAttempts - 1

Reserve == KEEP_APT_AMOUNT_FOR_SWAP * (10 ^ DECIMALS)

InExecuteTappSwap == pc \in {"await_quote", "await_build", "await_submit", "await_confirm"}

\* C13: the amountIn of an iteration is the APT balance read in that iteration
\* less the 5 APT kept back (0 if the balance is within them) for APT -> kAPT,
\* and the whole kAPT balance for kAPT -> APT; the quote and the transaction use
\* that amount, so APT -> kAPT quotes or transacts only with a balance above the
\* reserve and never spends more than the balance less the reserve.
C13_AmountComputation ==
    /\ AmountComputed /\ att.dir =>
          /\ att.aptBalance >= 0
          /\ att.coinReads = 0
          /\ att.aptBalance > Reserve => att.amountIn = att.aptBalance - Reserve
          /\ att.aptBalance <= Reserve => att.amountIn = 0
    /\ AmountComputed /\ ~att.dir =>
          /\ att.coinReads = 1
          /\ att.coinsData = "found" => att.amountIn = att.coinAmount
          /\ att.coinsData # "found" => att.amountIn = 0
    /\ InExecuteTappSwap =>
          /\ amountIn = att.amountIn
          /\ att.dir => currentAptBalanceRawUnits = att.aptBalance
    /\ att.quotes > 0 \/ att.payloads > 0 \/ att.submits > 0 =>
          /\ att.amountIn > 0
          /\ att.dir => /\ att.aptBalance > Reserve
                        /\ att.amountIn <= att.aptBalance - Reserve

C13_Witness ==
    /\ pc = "await_submit"
    /\ att.dir
    /\ att.aptBalance = Reserve + 1
    /\ amountIn = 1

PayloadBuilt == pc \in {"await_build", "await_submit", "await_confirm"}

\* C14: once a quote is obtained, the minAmountOut put in the payload is the
\* largest integer not above 99.5% of the quoted amount (995000 for a quote of
\* 1000000), hence never above the quoted amount.
C14_SlippageBound ==
    PayloadBuilt =>
       /\ att.quote = "quote"
       /\ att.payloads = 1
       /\ estimatedAmountOut > 0
       /\ 1000 * minAmountOut <= 995 * estimatedAmountOut
       /\ 995 * estimatedAmountOut < 1000 * (minAmountOut + 1)
       /\ estimatedAmountOut = 1000000 => minAmountOut = 995000
       /\ minAmountOut <= estimatedAmountOut

C14_Witness ==
    /\ pc = "await_submit"
    /\ estimatedAmountOut = 1000000
    /\ minAmountOut = 995000

\* C15: an iteration requests at most one quote and submits at most one
\* transaction (every call of the iteration is made at most once); once its
\* failure is recorded it makes no further call; the transactions submitted in a
\* run are at most as many as the iterations, hence at most SWAP_BATCH_SIZE.
C15_NoRetry ==
    /\ [](/\ att.aptReads <= 1 /\ att.coinReads <= 1 /\ att.quotes <= 1
          /\ att.payloads <= 1 /\ att.builds <= 1 /\ att.signs <= 1
          /\ att.submits <= 1 /\ att.waits <= 1
          /\ calls.submits <= totalAttempts
          /\ totalAttempts <= env.SWAP_BATCH_SIZE
          /\ att.failedAt = "aptAmount" => att.coinReads = 0 /\ att.quotes = 0
          /\ att.failedAt = "quote" => att.payloads = 0 /\ att.builds = 0
          /\ att.failedAt \in {"payload", "build", "sign"} => att.submits = 0
          /\ att.failedAt \in {"quote", "payload", "build"} => att.signs = 0
          /\ att.failedAt = "submit" => att.waits = 0)
    /\ [][(att.outcome = "Failure" /\ totalAttempts' = totalAttempts) =>
             /\ calls' = calls
             /\ \/ pc' = "loop" /\ att' = att
                \/ pc' = "notify_summary" /\ att' = NoAttempt]_vars

\* A quote request failed, its iteration is over, and the next has begun.
C15_Witness ==
    /\ calls.quoteErrors = 1
    /\ calls.submits = 1
    /\ totalAttempts = 2
    /\ pc = "await_submit"

\* C16: sendNotification never rejects, whatever channel is selected and whether
\* or not its credentials are set; a start notification that fails still leads
\* into the loop and a failing summary to the normal end, and neither changes a
\* counter or the direction.
C16_NotifierBestEffort ==
    /\ [](\A i \in 1..Len(notifications) : notifications[i].result # "thrown")
    /\ [][pc = "notify_start" =>
             /\ pc' = "loop"
             /\ exitCode' = -1
             /\ UNCHANGED <<successfulSwaps, failedSwaps, totalAttempts, isAptToKapt>>]_vars
    /\ [][pc = "notify_summary" =>
             /\ pc' = "done"
             /\ exitCode' = 0
             /\ UNCHANGED <<successfulSwaps, failedSwaps, totalAttempts, isAptToKapt>>]_vars
    /\ [][pc = "notify_config" => pc' = "configError"]_vars

\* The start notification failed for want of the channel's credentials and the
\* first iteration is running.
C16_Witness ==
    /\ pc = "await_aptAmount"
    /\ ~ChannelCredentials(env.notifier)
    /\ Len(notifications) = 1
    /\ notifications[1].kind = "start"
    /\ notifications[1].result = "failed"

\* C17: at most one external call is in flight at any time (exactly the one
\* main() is suspended on, none between calls); an iteration starts only when
\* the outcome of the one before is recorded and no call is in flight, so
\* iterations never overlap.
C17_StrictlySequential ==
    /\ [](/\ Cardinality(inflight) <= 1
          /\ inflight = {AwaitedCall(pc)} \ {"none"}
          /\ att.outcome = "pending" => Len(history) = totalAttempts - 1
          /\ att.outcome \in Outcomes => Len(history) = totalAttempts)
    /\ [][totalAttempts' # totalAttempts =>
             /\ totalAttempts' = totalAttempts + 1
             /\ inflight = {}
             /\ att.outcome # "pending"
             /\ Len(history) = totalAttempts
             /\ att'.outcome = "pending"]_vars

\* The second iteration is waiting for its confirmation.
C17_Witness ==
    /\ totalAttempts = 2
    /\ Len(history) = 1
    /\ inflight = {"waitForTransaction"}

\* C18: getCoinBalanceInUnits returns 0 when getAccountCoinsData fails and when
\* the account has no entry for the asset; a kAPT -> APT iteration whose kAPT
\* read ends so has amountIn = 0 and is skipped: no quote, no transaction,
\* failedSwaps unchanged, and the direction becomes APT -> kAPT.
C18_CoinReadFailsSafe ==
    /\ [](\A r \in CoinsDataResults : (~r.ok \/ ~r.found) => GetCoinBalanceInUnits(r) = 0)
    /\ [](att.coinsData \in {"error", "missing"} =>
             /\ ~att.dir
             /\ att.amountIn = 0
             /\ att.outcome = "Skipped"
             /\ att.failedAt = "none"
             /\ att.quotes = 0 /\ att.payloads = 0 /\ att.builds = 0
             /\ att.signs = 0 /\ att.submits = 0 /\ att.waits = 0
             /\ history[totalAttempts] = [dir |-> FALSE, outcome |-> "Skipped", endDir |-> TRUE]
             /\ isAptToKapt)
    /\ [][(pc = "await_coinsData" /\ att'.coinsData \in {"error", "missing"}) =>
             /\ failedSwaps' = failedSwaps
             /\ successfulSwaps' = successfulSwaps
             /\ calls' = calls
             /\ ~isAptToKapt /\ isAptToKapt'
             /\ inflight' = {}]_vars

\* The coin-data query of the second iteration failed after a failure of the first.
C18_Witness ==
    /\ att.coinsData = "error"
    /\ att.outcome = "Skipped"
    /\ totalAttempts = 2
    /\ failedSwaps = 1
    /\ isAptToKapt

\* The current iteration is not the first and uses the direction the one before
\* used.
SameDirectionAsPrevious ==
    /\ totalAttempts >= 2
    /\ att.outcome # "none"
    /\ att.aptBalance >= 0
    /\ att.dir = history[totalAttempts - 1].dir

\* C19: an iteration uses the direction of the iteration before only when that
\* direction is kAPT -> APT and its own APT balance is below 2 APT (the direction
\* was forced); APT -> kAPT is never used by two iterations in a row, whatever
\* their outcomes.
C19_RepeatOnlyByForcing ==
    /\ SameDirectionAsPrevious =>
          /\ ~att.dir
          /\ att.inherited
          /\ att.aptBalance < APT_MIN_THRESHOLD * (10 ^ DECIMALS)
    /\ \A i \in 1..(Len(history) - 1) :
          ~(history[i].dir /\ history[i + 1].dir)
    /\ (totalAttempts >= 2 /\ att.outcome # "none") =>
          ~(att.dir /\ history[totalAttempts - 1].dir)

\* kAPT -> APT twice in a row: a success, then a forced iteration that failed.
C19_Witness ==
    /\ SameDirectionAsPrevious
    /\ history[totalAttempts - 1].outcome = "Success"
    /\ att.outcome = "Failure"
    /\ ~att.dir

\* C20: successfulSwaps is incremented only when the confirmation wait of a
\* submitted transaction returns without error, so successfulSwaps <= submitted
\* transactions <= iterations not skipped; a submitted transaction whose
\* confirmation wait fails makes its iteration a failure, not a success.
C20_SuccessAfterConfirmation ==
    /\ [](/\ successfulSwaps <= calls.submits
          /\ calls.submits <= totalAttempts - SkippedCount
          /\ att.outcome = "Success" =>
                att.submits = 1 /\ att.waits = 1 /\ att.failedAt = "none"
          /\ att.failedAt = "wait" =>
                att.outcome = "Failure" /\ att.submits = 1 /\ att.waits = 1)
    /\ [][successfulSwaps' # successfulSwaps =>
             /\ pc = "await_confirm"
             /\ att.submits = 1 /\ att.waits = 1
             /\ successfulSwaps' = successfulSwaps + 1
             /\ failedSwaps' = failedSwaps
             /\ att'.outcome = "Success"]_vars
    /\ [][(pc = "await_confirm" /\ att'.failedAt = "wait") =>
             /\ failedSwaps' = failedSwaps + 1
             /\ successfulSwaps' = successfulSwaps
             /\ history'[totalAttempts].outcome = "Failure"]_vars

\* One confirmed swap, then a submitted transaction whose confirmation wait failed.
C20_Witness ==
    /\ att.failedAt = "wait"
    /\ calls.submits = 2
    /\ successfulSwaps = 1
    /\ failedSwaps = 1

====
